---------------------------- MODULE Spec2Model ----------------------------
(***************************************************************************)
(* A model of webscraping-seguro.py: one run of scrape_site(BASE_URL).     *)
(*                                                                         *)
(* The run is a sequential program; the only nondeterminism is the         *)
(* environment (what robots.txt says, what the server answers to each GET  *)
(* attempt, which listing document a 200 carries) and the two random       *)
(* draws of the program (random.choice of a User-Agent, random.uniform of  *)
(* a delay).                                                               *)
(*                                                                         *)
(* session.get() runs through requests' HTTPAdapter with the urllib3 Retry *)
(* object built in make_session; the attempt loop of that adapter is       *)
(* modelled here as configured there (total, backoff_factor,               *)
(* status_forcelist, allowed_methods and urllib3's defaults               *)
(* respect_retry_after_header = True, raise_on_status = True).             *)
(*                                                                         *)
(* Units: pacing delays (random_delay) are in tenths of a second, waits of *)
(* the fetch layer (backoff, Retry-After) in whole seconds.                *)
(***************************************************************************)
EXTENDS Integers, Sequences, FiniteSets, TLC

\* ------------------------------------------------------------------ bounds

\* Logical page fetches (calls of polite_get) one run may make.
MaxPages == 2

\* Items a listing document may hold.
MaxItems == 2

\* ------------------------------------------------------- program constants

\* MIN_DELAY = 1.0 s and MAX_DELAY = 3.0 s, in tenths of a second.
MIN_DELAY == 10

MAX_DELAY == 30

\* Retry(total=5, ...): the number of RETRIES urllib3 allows after the first
\* attempt (Retry.increment decrements it per failure and raises once it is
\* below zero).
RETRY_TOTAL == 5

\* Retry(backoff_factor=1, ...).
BACKOFF_FACTOR == 1

\* urllib3's Retry.DEFAULT_BACKOFF_MAX, which make_session leaves in place.
BACKOFF_MAX == 120

\* urllib3's Retry.DEFAULT_RETRY_AFTER_MAX (six hours), which make_session
\* leaves in place: the longest wait a Retry-After header is honoured for.
RETRY_AFTER_MAX == 21600

\* The fallback wait of polite_get when Retry-After is not an integer.
RETRY_AFTER_FALLBACK == 60

\* Retry(status_forcelist=(429, 500, 502, 503, 504), ...).
STATUS_FORCELIST == {429, 500, 502, 503, 504}

\* urllib3's Retry.RETRY_AFTER_STATUS_CODES, which make_session leaves in place.
RETRY_AFTER_STATUS_CODES == {413, 429, 503}

\* The three entries of USER_AGENTS, by index; each starts with "Mozilla/5.0",
\* so robotparser matches all of them against the agent token "mozilla".
USER_AGENTS == <<"UA1", "UA2", "UA3">>

\* ------------------------------------------------------------------- URLs
\* An absolute URL is [host, dir, file]: "http://" host "/" dir.. "/" file,
\* with dir a sequence of path segments and file possibly empty.

Url(h, d, f) == [kind |-> "url", host |-> h, dir |-> d, file |-> f]

\* BASE_URL = "http://books.toscrape.com/": the root of the seed host.
BASE_URL == Url("a", << >>, "")

\* page = None, the value that ends the while loop of scrape_site.
NoPage == [kind |-> "none"]

\* An href attribute: absent (attrs.get("href") is None), an absolute URL, a
\* file name relative to the directory of the page ("x"), or an absolute
\* path on the page's host ("/c/x").
NoHref == [kind |-> "none"]

AbsHref(u) == [kind |-> "abs", url |-> u]

RelHref(f) == [kind |-> "rel", file |-> f]

PathHref(d, f) == [kind |-> "path", dir |-> d, file |-> f]

\* urllib.parse.urljoin(base, href) on these forms; urljoin returns the base
\* itself when href is None or empty.
urljoin(base, href) ==
    IF href.kind = "none" THEN base
    ELSE IF href.kind = "abs" THEN href.url
    ELSE IF href.kind = "rel" THEN Url(base.host, base.dir, href.file)
    ELSE Url(base.host, href.dir, href.file)

\* ------------------------------------------------------------- robots.txt

IsPrefix(s, t) == Len(s) <= Len(t) /\ SubSeq(t, 1, Len(s)) = s

\* A Disallow rule is a path, [dir, file]; RuleLine.applies_to is
\* filename.startswith(path) on the URL's path alone (can_fetch drops scheme
\* and host). Segment and file names are chosen so that none is a prefix of
\* another, which makes the string prefix test this test on segments.
Rule(d, f) == [dir |-> d, file |-> f]

StartsWith(u, rule) ==
    IF rule.file = "" THEN IsPrefix(rule.dir, u.dir)
    ELSE \/ (rule.dir = u.dir /\ rule.file = u.file)
         \/ IsPrefix(rule.dir \o <<rule.file>>, u.dir)

\* The agent token robotparser matches entries against: the text before the
\* first "/" of the User-Agent, lowercased. Every entry of USER_AGENTS gives
\* "mozilla"; scrape_site's first check passes "*".
AgentToken(ua) == IF ua = "*" THEN "*" ELSE "mozilla"

\* What check_robots returns as rp:
\*   "none"     rp.read() raised (network failure): check_robots returns None;
\*   "parsed"   a 200 whose body was parsed: star is the Disallow set of the
\*              "User-agent: *" entry, moz that of an entry naming Mozilla
\*              (hasMoz = FALSE when robots.txt has no such entry);
\*   "denyall"  HTTP 401/403: disallow_all;
\*   "allowall" any other HTTP 4xx: allow_all;
\*   "unread"   HTTP 5xx: read() swallows the error and last_checked stays 0.
NoPolicy == [kind |-> "none"]

Parsed(s, hm, m) == [kind |-> "parsed", star |-> s, hasMoz |-> hm, moz |-> m]

ReadFailed(k) == [kind |-> k]

\* RobotFileParser.can_fetch(useragent, url).
can_fetch(rp, useragent, url) ==
    IF rp.kind = "denyall" THEN FALSE
    ELSE IF rp.kind = "allowall" THEN TRUE
    ELSE IF rp.kind = "unread" THEN FALSE
    ELSE LET rules == IF AgentToken(useragent) = "mozilla" /\ rp.hasMoz
                      THEN rp.moz ELSE rp.star
         IN  ~ \E r \in rules : StartsWith(url, r)

\* A bug of check_robots: a denial reported as "could not verify".
check_robots_unverified(outcome, url) ==
    [robots_ok |-> "None", rp |-> IF outcome.kind = "none" THEN NoPolicy ELSE outcome]

\* check_robots(url, "*"), as scrape_site unpacks it: (robots_ok, rp), with
\* (None, None) when robots.txt could not be read.
check_robots(outcome, url) ==
    IF outcome.kind = "none"
    THEN [robots_ok |-> "None", rp |-> NoPolicy]
    ELSE [robots_ok |-> IF can_fetch(outcome, "*", url) THEN "True" ELSE "False",
          rp |-> outcome]

\* --------------------------------------------------------- HTTP responses

\* The Retry-After header of a response: absent, a string of digits, or one
\* of the other texts below.
NoRetryAfter == [kind |-> "none"]

RetryAfterInt(n) == [kind |-> "int", secs |-> n]

\* A header that int() parses but that is not all digits ("-5", "+3"): n is
\* its value.
RetryAfterSigned(n) == [kind |-> "signed", secs |-> n]

\* An HTTP-date, n seconds after the moment the response is received
\* (before it when n is negative).
RetryAfterDate(n) == [kind |-> "date", secs |-> n]

\* Any other non-empty text.
RetryAfterText == [kind |-> "text", secs |-> 0]

\* One GET attempt ends in a response (status, Retry-After header) or in a
\* network-level failure (connection refused, timeout, DNS).
Response(st, ra) == [net |-> FALSE, status |-> st, ra |-> ra]

NetworkFailure == [net |-> TRUE, status |-> 0, ra |-> NoRetryAfter]

NoResponse == [net |-> FALSE, status |-> 0, ra |-> NoRetryAfter]

\* ------------------------------------------------------ listing documents

\* A listing document, as parse_listing and the next-page selector see it:
\* the (title, href) of each "article.product_pod h3 a", and the href of the
\* first "li.next a" ("nolink" when the document has no such element).
NoNextLink == [kind |-> "nolink"]

Item(t, h) == [title |-> t, href |-> h]

SeqsUpTo(S, n) == UNION {[1..k -> S] : k \in 0..n}

Listings(itemHrefs, nextHrefs) ==
    [items : SeqsUpTo({Item("T", h) : h \in itemHrefs}, MaxItems),
     next : nextHrefs \cup {NoNextLink}]

\* parse_listing(html).
parse_listing(html) == html.items

\* ------------------------------------------- the retry layer (make_session)
\* session.get(url) is one call of urllib3's urlopen with a fresh copy of the
\* Retry object mounted by make_session.

ALLOWED_METHODS == {"GET", "POST"}

Min(a, b) == IF a < b THEN a ELSE b

\* A bug of the Retry configuration: no status_forcelist, so that only
\* Retry-After responses are retried.
is_retry_no_forcelist(method, status_code, has_retry_after, left) ==
    /\ method \in ALLOWED_METHODS
    /\ left # 0
    /\ has_retry_after
    /\ status_code \in RETRY_AFTER_STATUS_CODES

\* A bug of the Retry configuration: 429 missing from status_forcelist.
is_retry_without_429(method, status_code, has_retry_after, left) ==
    IF method \notin ALLOWED_METHODS THEN FALSE
    ELSE IF status_code \in STATUS_FORCELIST \ {429} THEN TRUE
    ELSE /\ left # 0
         /\ has_retry_after
         /\ status_code \in RETRY_AFTER_STATUS_CODES

\* A bug of the Retry configuration: every error status retried.
is_retry_any_error(method, status_code, has_retry_after, left) ==
    method \in ALLOWED_METHODS /\ status_code >= 400

\* Retry.is_retry(method, status_code, has_retry_after), left being the
\* retries the Retry object has left (its total).
is_retry(method, status_code, has_retry_after, left) ==
    IF method \notin ALLOWED_METHODS THEN FALSE
    ELSE IF status_code \in STATUS_FORCELIST THEN TRUE
    ELSE /\ left # 0
         /\ has_retry_after
         /\ status_code \in RETRY_AFTER_STATUS_CODES

\* A bug of the backoff: a constant wait of backoff_factor seconds.
get_backoff_time_constant(n) == BACKOFF_FACTOR

\* Retry.get_backoff_time() after `failures` consecutive failed attempts:
\* nothing before the second retry, then backoff_factor * 2^(failures - 1),
\* capped by backoff_max.
get_backoff_time(failures) ==
    IF failures <= 1 THEN 0
    ELSE Min(BACKOFF_MAX, BACKOFF_FACTOR * 2 ^ (failures - 1))

\* Retry.parse_retry_after(): digits are seconds, an HTTP-date is the time
\* left until it, anything else raises InvalidHeader.
invalid_retry_after(r) == ~r.net /\ r.ra.kind \in {"signed", "text"}

Max(a, b) == IF a > b THEN a ELSE b

\* Retry.get_retry_after(response): the seconds of the header, None (0 here)
\* without one. A date in the past counts as 0 seconds (max(seconds, 0)),
\* and the value is capped by retry_after_max.
get_retry_after(r) ==
    IF r.ra.kind \in {"int", "date"}
    THEN Min(RETRY_AFTER_MAX, Max(r.ra.secs, 0))
    ELSE 0

\* Retry.sleep(response): the Retry-After of the response when it has one
\* that is not zero (respect_retry_after_header), else the backoff time.
\* A network failure has no response.
sleep_time(r, failures) ==
    IF ~r.net /\ get_retry_after(r) # 0 THEN get_retry_after(r)
    ELSE get_backoff_time(failures)

\* Whether urlopen retries after this attempt's result: every network failure
\* of a GET is retried, a response as is_retry says.
retries_on(r, left) ==
    r.net \/ is_retry("GET", r.status, r.ra.kind # "none", left)

\* polite_get, lines 95-97: the 429 branch is taken for a 429 whose
\* Retry-After header is a non-empty string.
handles_429(r) == r.status = 429 /\ r.ra.kind # "none"

\* polite_get, lines 98-102: int(ra), or 60 when int() raises ValueError.
retry_after_wait(r) ==
    IF r.ra.kind \in {"int", "signed"} THEN r.ra.secs ELSE RETRY_AFTER_FALLBACK

\* time.sleep(wait), line 104: ValueError for a negative length.
sleep_raises(wait) == wait < 0

\* Response.raise_for_status(): HTTPError for 4xx and 5xx.
raises_for_status(r) == r.status >= 400 /\ r.status < 600

\* ------------------------------------------------------------ environment
\* The server of a run: the results a GET attempt may have, the listing
\* documents a 200 may carry, and what reading robots.txt may give.

\* Disallow sets: nothing, the directory /c/, the whole site.
AllowAll == {}

DenyDir == {Rule(<<"c">>, "")}

DenySite == {Rule(<< >>, "")}

\* Policies under which a crawl meets every outcome of the two robots checks
\* (line 130 with "*", line 83 with the agent sent).
CrawlPolicies ==
    {ReadFailed("denyall"), ReadFailed("unread"),
     Parsed(AllowAll, FALSE, {}), Parsed(DenyDir, FALSE, {}),
     Parsed(DenySite, FALSE, {}), Parsed(AllowAll, TRUE, DenyDir),
     Parsed(AllowAll, TRUE, DenySite), Parsed(DenyDir, TRUE, AllowAll)}

OpenPolicies == {NoPolicy, ReadFailed("allowall"), Parsed(AllowAll, FALSE, {})}

ItemHrefs == {RelHref("x"), AbsHref(Url("a", <<"c">>, "x"))}

NextHrefs == {NoHref, RelHref("x"), PathHref(<<"c">>, "x"), AbsHref(Url("b", << >>, ""))}

PlainListings ==
    {[items |-> << >>, next |-> NoNextLink],
     [items |-> <<Item("T", RelHref("y"))>>, next |-> RelHref("x")]}

OK == Response(200, NoRetryAfter)

\* A site with many listings and few failures.
CrawlServer ==
    [resps |-> {OK, Response(404, NoRetryAfter)},
     htmls |-> Listings(ItemHrefs, NextHrefs),
     robots |-> CrawlPolicies]

\* A server that fails transiently: 5xx without Retry-After, network failures.
TransientServer ==
    [resps |-> {OK, NetworkFailure}
                 \cup {Response(st, NoRetryAfter) : st \in {500, 502, 503, 504}},
     htmls |-> PlainListings,
     robots |-> OpenPolicies]

\* A server that rate-limits: 429 and 503, with and without Retry-After.
RateLimitServer ==
    [resps |-> {OK, Response(429, NoRetryAfter), Response(429, RetryAfterInt(3)),
                Response(503, NoRetryAfter), Response(503, RetryAfterInt(3))},
     htmls |-> PlainListings,
     robots |-> OpenPolicies]

\* A server that answers with client errors.
ClientErrorServer ==
    [resps |-> {OK, Response(404, RetryAfterInt(3)), Response(413, RetryAfterInt(3))}
                 \cup {Response(st, NoRetryAfter) : st \in {400, 401, 403, 404, 413}},
     htmls |-> PlainListings,
     robots |-> OpenPolicies]

\* A server that rate-limits with every kind of Retry-After header.
HeaderServer ==
    [resps |-> {OK, Response(429, RetryAfterInt(2)), Response(429, RetryAfterInt(0)),
                Response(429, RetryAfterSigned(-5)), Response(429, RetryAfterDate(7)),
                Response(429, RetryAfterText)},
     htmls |-> PlainListings,
     robots |-> OpenPolicies]

\* A server down for maintenance, whose Retry-After is longer than
\* retry_after_max or a date already past.
MaintenanceServer ==
    [resps |-> {OK, Response(503, RetryAfterInt(30000)),
                Response(503, RetryAfterDate(-30))},
     htmls |-> PlainListings,
     robots |-> OpenPolicies]

\* A site that answers every GET with 200 and whose next-page links may lead
\* back to a page already visited.
CyclicServer ==
    [resps |-> {OK},
     htmls |-> Listings(ItemHrefs, {NoHref, RelHref("x")}),
     robots |-> OpenPolicies]

Servers ==
    {CrawlServer, TransientServer, RateLimitServer, ClientErrorServer, HeaderServer,
     MaintenanceServer}

\* A bug of the draw: uniform(0, MAX_DELAY).
uniform_from_zero(lo, hi) == {d \in 0..hi : d % 10 = 0}

\* random.uniform(MIN_DELAY, MAX_DELAY), on a grid of whole seconds.
uniform(lo, hi) == {d \in lo..hi : d % 10 = 0}

\* ------------------------------------------------------------------ state

VARIABLES
    server,      \* the environment of the run
    pc,          \* "Starting", "Loop", "Sending", "GotResp", "Items", "Terminal"
    robots_ok,   \* scrape_site's robots_ok: "None", "True" or "False"
    rp,          \* scrape_site's rp: the robots policy, or NoPolicy
    robotsGets,  \* requests made for robots.txt
    page,        \* scrape_site's page
    seen,        \* scrape_site's seen
    discovered,  \* the (title, item_url) pairs logged as found, in order
    items,       \* the items of the page being processed
    idx,         \* the position of the for loop in items
    next_link,   \* the next-page link of the page being processed
    user_agent,  \* polite_get's user_agent argument
    headerUA,    \* the User-Agent header polite_get sends
    resp,        \* the response session.get returned to polite_get
    total,       \* retries left in the Retry object of the running session.get
    failures,    \* failed attempts of the running session.get (Retry.history)
    reissued,    \* polite_get is in its second session.get (line 105)
    attempts,    \* GET attempts of the running polite_get
    waits,       \* seconds slept between its consecutive attempts
    results,     \* the set of results its attempts had
    fetched,     \* the URLs polite_get issued a GET for, in order
    gets,        \* GET attempts of the run, all pages together
    allOK,       \* every GET attempt of the run was answered 200
    pageStart,   \* Len(discovered) when the page being processed was parsed
    paced,       \* a random_delay was slept since the last GET attempt
    lastDelay,   \* the random_delay slept since the last GET attempt (0: none)
    terminal,    \* "None", "Completed", "BlockedByRobots", "AbortedOnError"
    reason       \* the exception logged on abort: "PermissionError", ...

vars ==
    <<server, pc, robots_ok, rp, robotsGets, page, seen, discovered, items, idx,
      next_link, user_agent, headerUA, resp, total, failures, reissued,
      attempts, waits, results, fetched, gets, allOK, pageStart, paced, lastDelay,
      terminal, reason>>

crawlVars == <<page, seen, discovered, items, idx, next_link>>

callVars == <<user_agent, headerUA, resp, total, failures, reissued, attempts, waits, results>>

InitOn(srv) ==
    /\ server = srv
    /\ pc = "Starting"
    /\ robots_ok = "None"
    /\ rp = NoPolicy
    /\ robotsGets = 0
    /\ page = NoPage
    /\ seen = {}
    /\ discovered = << >>
    /\ items = << >>
    /\ idx = 1
    /\ next_link = NoNextLink
    /\ user_agent = "None"
    /\ headerUA = "None"
    /\ resp = NoResponse
    /\ total = RETRY_TOTAL
    /\ failures = 0
    /\ reissued = FALSE
    /\ attempts = 0
    /\ waits = << >>
    /\ results = {}
    /\ fetched = << >>
    /\ gets = 0
    /\ allOK = TRUE
    /\ pageStart = 0
    /\ paced = FALSE
    /\ lastDelay = 0
    /\ terminal = "None"
    /\ reason = "None"

Init == \E srv \in Servers : InitOn(srv)

\* ---------------------------------------------------------------- actions

\* A bug of the exits: the exception caught but not logged.
Finish_unlogged(status, why) ==
    /\ pc' = "Terminal"
    /\ terminal' = status
    /\ reason' = "None"

\* The exit of scrape_site: the return of line 133, a break out of the while
\* loop (lines 144-152) or its normal end. The code only logs; status and why
\* name what it logged.
Finish(status, why) ==
    /\ pc' = "Terminal"
    /\ terminal' = status
    /\ reason' = why

\* A bug of random_delay: the delay computed and logged but not slept.
random_delay_unslept(d) ==
    /\ d \in uniform(MIN_DELAY, MAX_DELAY)
    /\ lastDelay' = 0
    /\ paced' = FALSE

\* random_delay(): sleep for uniform(MIN_DELAY, MAX_DELAY).
random_delay(d) ==
    /\ d \in uniform(MIN_DELAY, MAX_DELAY)
    /\ lastDelay' = d
    /\ paced' = TRUE

\* scrape_site, lines 129-136: make_session, check_robots(start_url, "*"),
\* the return when robots.txt forbids the seed, page = start_url.
Start ==
    /\ pc = "Starting"
    /\ \E outcome \in server.robots :
        LET r == check_robots(outcome, BASE_URL) IN
        /\ robots_ok' = r.robots_ok
        /\ rp' = r.rp
        /\ robotsGets' = robotsGets + 1
        /\ IF r.robots_ok = "False"
           THEN /\ Finish("BlockedByRobots", "None")
                /\ page' = page
           ELSE /\ pc' = "Loop"
                /\ page' = BASE_URL
                /\ UNCHANGED <<terminal, reason>>
    /\ UNCHANGED <<server, seen, discovered, items, idx, next_link, fetched, gets,
                   allOK, pageStart, paced, lastDelay>>
    /\ UNCHANGED callVars

\* The agent polite_get checks robots.txt with (line 83) and the one it sends
\* (line 88, where the choice is random.choice(USER_AGENTS) when the argument
\* is missing).
robots_agent(ua) == IF ua # "None" THEN ua ELSE USER_AGENTS[1]

\* A bug of polite_get: the robots check left out.
robots_blocks_never(policy, ua, url) == FALSE

\* polite_get, lines 82-85: the call raises PermissionError when a policy is
\* loaded and denies the URL.
robots_blocks(policy, ua, url) ==
    policy.kind # "none" /\ ~can_fetch(policy, robots_agent(ua), url)

\* polite_get, line 88: the User-Agent header, choice being what
\* random.choice(USER_AGENTS) returns.
header_agent(ua, choice) == IF ua # "None" THEN ua ELSE choice

\* polite_get(session, page, rp, user_agent=ua), lines 82-91, called at the
\* head of the while loop (lines 138-143): the robots check of the current
\* page and the headers. A denial is the PermissionError of line 85, caught
\* at line 144.
polite_get(ua) ==
    /\ pc = "Loop"
    /\ page # NoPage
    /\ user_agent' = ua
    /\ IF robots_blocks(rp, ua, page)
       THEN /\ Finish("AbortedOnError", "PermissionError")
            /\ headerUA' = "None"
       ELSE /\ pc' = "Sending"
            /\ \E i \in DOMAIN USER_AGENTS : headerUA' = header_agent(ua, USER_AGENTS[i])
            /\ UNCHANGED <<terminal, reason>>
    /\ resp' = NoResponse
    /\ total' = RETRY_TOTAL
    /\ failures' = 0
    /\ reissued' = FALSE
    /\ attempts' = 0
    /\ waits' = << >>
    /\ results' = {}
    /\ UNCHANGED <<server, robots_ok, rp, robotsGets, fetched, gets, allOK, pageStart,
                   paced, lastDelay>>
    /\ UNCHANGED crawlVars

\* scrape_site, lines 138-143: the loop test and the call of polite_get with
\* user_agent=random.choice(USER_AGENTS).
PoliteGetEnter ==
    /\ Len(fetched) < MaxPages
    /\ \E i \in DOMAIN USER_AGENTS : polite_get(USER_AGENTS[i])

\* The same step of a run whose history (fetched, gets) is not kept, so that
\* the number of pages is not bounded.
PoliteGetEnterAgain ==
    /\ page # NoPage
    /\ \E i \in DOMAIN USER_AGENTS : polite_get(USER_AGENTS[i])

\* polite_get called as its signature allows: user_agent given, or left to
\* its default None.
PoliteGetAnyAgent ==
    /\ Len(fetched) < MaxPages
    /\ \E ua \in {"None"} \cup {USER_AGENTS[i] : i \in DOMAIN USER_AGENTS} : polite_get(ua)

\* One pass of urlopen inside session.get (lines 93 and 105): a GET attempt
\* and its result r. A result to retry on costs one of the retries left:
\* with none left the call raises (MaxRetryError, which requests turns into
\* RetryError or ConnectionError, caught at line 150); otherwise urlopen
\* sleeps and tries again, unless the Retry-After header of the response
\* cannot be parsed, which raises InvalidHeader out of the sleep (caught at
\* line 150 too). Any other response is returned to polite_get.
urlopen ==
    /\ pc = "Sending"
    /\ \E r \in server.resps :
        /\ results' = results \cup {r}
        /\ allOK' = (allOK /\ r = OK)
        /\ IF retries_on(r, total)
           THEN IF total - 1 < 0 \/ invalid_retry_after(r)
                THEN /\ Finish("AbortedOnError", "Exception")
                     /\ UNCHANGED <<total, failures, waits, resp>>
                ELSE /\ total' = total - 1
                     /\ failures' = failures + 1
                     /\ waits' = Append(waits, sleep_time(r, failures + 1))
                     /\ UNCHANGED <<pc, terminal, reason, resp>>
           ELSE /\ resp' = r
                /\ pc' = "GotResp"
                /\ UNCHANGED <<total, failures, waits, terminal, reason>>
    /\ attempts' = attempts + 1
    /\ paced' = FALSE
    /\ lastDelay' = 0
    /\ UNCHANGED <<server, robots_ok, rp, robotsGets, user_agent, headerUA, reissued,
                   pageStart>>
    /\ UNCHANGED crawlVars

\* A GET attempt, recorded in the history of the run.
Attempt ==
    /\ urlopen
    /\ gets' = gets + 1
    /\ fetched' = IF attempts = 0 THEN Append(fetched, page) ELSE fetched

\* A GET attempt of a run whose history is not kept.
AttemptAgain ==
    /\ urlopen
    /\ UNCHANGED <<fetched, gets>>

\* polite_get, lines 95-107, and scrape_site, lines 143-154 and 167-168: a 429
\* with Retry-After is slept on and the GET issued once more; otherwise
\* raise_for_status raises HTTPError (caught at line 147) or the body is
\* parsed into its items and its next-page link.
PoliteGetReturn ==
    /\ pc = "GotResp"
    /\ \E html \in server.htmls :
        IF handles_429(resp) /\ ~reissued
        THEN IF sleep_raises(retry_after_wait(resp))
             THEN /\ Finish("AbortedOnError", "Exception")
                  /\ UNCHANGED <<items, idx, next_link, pageStart>>
                  /\ UNCHANGED callVars
             ELSE /\ waits' = Append(waits, retry_after_wait(resp))
                  /\ reissued' = TRUE
                  /\ total' = RETRY_TOTAL
                  /\ failures' = 0
                  /\ pc' = "Sending"
                  /\ UNCHANGED <<resp, user_agent, headerUA, attempts, results, items,
                                 idx, next_link, pageStart, terminal, reason>>
        ELSE IF raises_for_status(resp)
        THEN /\ Finish("AbortedOnError", "HTTPError")
             /\ UNCHANGED <<items, idx, next_link, pageStart>>
             /\ UNCHANGED callVars
        ELSE /\ items' = parse_listing(html)
             /\ idx' = 1
             /\ next_link' = html.next
             /\ pageStart' = Len(discovered)
             /\ pc' = "Items"
             /\ user_agent' = "None"
             /\ headerUA' = "None"
             /\ resp' = NoResponse
             /\ total' = RETRY_TOTAL
             /\ failures' = 0
             /\ reissued' = FALSE
             /\ attempts' = 0
             /\ waits' = << >>
             /\ results' = {}
             /\ UNCHANGED <<terminal, reason>>
    /\ UNCHANGED <<server, robots_ok, rp, robotsGets, page, seen, discovered, fetched,
                   gets, allOK, paced, lastDelay>>

\* A bug of the loop: the test made on nothing, every item taken as new.
already_seen_never(item_url, seenSet) == FALSE

\* scrape_site, line 158: the membership test on the absolute item URL.
already_seen(item_url, seenSet) == item_url \in seenSet

\* A bug of the loop: the item found last reported first.
record_first(found, entry) == <<entry>> \o found

\* scrape_site, lines 160-161: the item is logged after those found so far.
record(found, entry) == Append(found, entry)

\* scrape_site, lines 155-163: one turn of the for loop. An item URL already
\* in seen is skipped; a new one is added, logged and followed by a
\* random_delay.
ItemStep ==
    /\ pc = "Items"
    /\ idx <= Len(items)
    /\ LET item_url == urljoin(page, items[idx].href) IN
        IF already_seen(item_url, seen)
        THEN UNCHANGED <<seen, discovered, paced, lastDelay>>
        ELSE /\ seen' = seen \cup {item_url}
             /\ discovered' = record(discovered, <<items[idx].title, item_url>>)
             /\ \E d \in uniform(MIN_DELAY, MAX_DELAY) : random_delay(d)
    /\ idx' = idx + 1
    /\ UNCHANGED <<server, pc, robots_ok, rp, robotsGets, page, items, next_link,
                   fetched, gets, allOK, pageStart, terminal, reason>>
    /\ UNCHANGED callVars

\* scrape_site, lines 166-174: with a next-page link, page becomes its URL
\* and a random_delay follows; without one, page = None ends the loop and
\* the run.
Advance ==
    /\ pc = "Items"
    /\ idx > Len(items)
    /\ IF next_link # NoNextLink
       THEN /\ page' = urljoin(page, next_link)
            /\ \E d \in uniform(MIN_DELAY, MAX_DELAY) : random_delay(d)
            /\ pc' = "Loop"
            /\ UNCHANGED <<terminal, reason>>
       ELSE /\ page' = NoPage
            /\ Finish("Completed", "None")
            /\ UNCHANGED <<paced, lastDelay>>
    /\ UNCHANGED <<server, robots_ok, rp, robotsGets, seen, discovered, items, idx,
                   next_link, fetched, gets, allOK, pageStart>>
    /\ UNCHANGED callVars

Next ==
    \/ Start
    \/ PoliteGetEnter
    \/ Attempt
    \/ PoliteGetReturn
    \/ ItemStep
    \/ Advance

Spec == Init /\ [][Next]_vars

\* polite_get under every call its signature allows.
NextAnyAgent ==
    \/ Start
    \/ PoliteGetAnyAgent
    \/ Attempt
    \/ PoliteGetReturn
    \/ ItemStep
    \/ Advance

SpecAnyAgent == Init /\ [][NextAnyAgent]_vars

\* scrape_site on a site that answers every GET with 200, run for as long as
\* its loop goes on. The program is sequential: it takes its next step
\* whenever it has one.
NextCyclic ==
    \/ Start
    \/ PoliteGetEnterAgain
    \/ AttemptAgain
    \/ PoliteGetReturn
    \/ ItemStep
    \/ Advance

SpecCyclic == InitOn(CyclicServer) /\ [][NextCyclic]_vars /\ WF_vars(NextCyclic)

\* ------------------------------------------------------------ properties

\* The URLs recorded as discovered, in order.
DiscoveredUrls == [i \in DOMAIN discovered |-> discovered[i][2]]

NoDuplicates(q) == \A i, j \in DOMAIN q : q[i] = q[j] => i = j

\* A robots policy was loaded and denies the seed to the agent "*".
SeedDenied == rp.kind # "none" /\ ~can_fetch(rp, "*", BASE_URL)

\* C1: when the robots policy of the seed host denies the seed URL, the run
\* issues no page GET (robots.txt is its only request), discovers no item
\* and ends in Terminal as BlockedByRobots.
C1_SeedDeniedBlocksRun ==
    SeedDenied =>
        /\ pc = "Terminal"
        /\ terminal = "BlockedByRobots"
        /\ gets = 0
        /\ fetched = << >>
        /\ discovered = << >>
        /\ robotsGets = 1

C1_Witness ==
    /\ rp.kind = "parsed"
    /\ SeedDenied
    /\ terminal = "BlockedByRobots"

\* C2: with a robots policy loaded, a GET attempt is only ever made for a
\* page the policy allows to the User-Agent being sent; a page the policy
\* denies ends the run in Terminal without a GET for it, and no GET follows
\* once the run is in Terminal.
C2_NoGetForDeniedPage ==
    /\ [](reason = "PermissionError" =>
            /\ pc = "Terminal"
            /\ terminal = "AbortedOnError"
            /\ rp.kind # "none"
            /\ ~can_fetch(rp, user_agent, page)
            /\ \A i \in DOMAIN fetched : fetched[i] # page)
    /\ [][/\ gets' # gets =>
                \/ rp.kind = "none"
                \/ headerUA # "None" /\ can_fetch(rp, headerUA, page)
          /\ pc = "Terminal" => gets' = gets]_vars

\* The second page of a crawl is denied after the first was fetched.
C2_Witness ==
    /\ reason = "PermissionError"
    /\ Len(fetched) = 1
    /\ gets = 1
    /\ page # BASE_URL

\* C3 as claimed: the first GET attempt of every page fetch, the seed's
\* included, comes after a random_delay slept since the previous request.
C3_Original == (pc = "Sending" /\ attempts = 0) => paced

\* C3 as amended: the first GET attempt of every page fetch but the seed's
\* comes after a random_delay slept since the previous GET attempt; the
\* seed's is made with no wait before it.
C3_PacedExceptSeed ==
    (pc = "Sending" /\ attempts = 0) =>
        IF fetched = << >>
        THEN ~paced /\ lastDelay = 0 /\ page = BASE_URL
        ELSE paced /\ lastDelay >= MIN_DELAY /\ lastDelay <= MAX_DELAY

C3_Witness ==
    /\ pc = "Sending"
    /\ attempts = 0
    /\ Len(fetched) = 1
    /\ paced

\* A transient failure: a network-level failure or a 500, 502, 503 or 504.
Transient(r) == r.net \/ r.status \in {500, 502, 503, 504}

\* A permanent client error of the spec's list.
Permanent(r) == ~r.net /\ r.status \in {400, 401, 403, 404}

\* The running page fetch has made attempts, and each ended in a transient
\* failure.
AllTransient == results # {} /\ \A r \in results : Transient(r)

\* ... each ended in a permanent client error.
AllPermanent == results # {} /\ \A r \in results : Permanent(r)

\* The page fetch ended by an exception out of session.get after n attempts.
RaisedAfter(n) ==
    /\ pc = "Terminal"
    /\ terminal = "AbortedOnError"
    /\ reason = "Exception"
    /\ attempts = n

\* The waits of the backoff alone before retries 1..n: none before the first
\* retry, then 2, 4, 8, 16 seconds.
BackoffWaits(n) == [i \in 1..n |-> IF i = 1 THEN 0 ELSE BACKOFF_FACTOR * 2 ^ (i - 1)]

StrictlyIncreasing(q) == \A i, j \in DOMAIN q : i < j => q[i] < q[j]

Doubling(q) == \A i \in DOMAIN q : i > 1 => q[i] = 2 * q[i - 1]

\* C4 as claimed: a page fetch whose attempts all end in transient failures
\* makes at most 5 GET attempts.
C4_Original == AllTransient => attempts <= 5

\* C4 as amended: a page fetch whose attempts all end in transient failures
\* makes at most 6 GET attempts, the first and the 5 retries of
\* Retry(total=5); it goes on until the 6th, whose failure is raised out of
\* session.get and aborts the run.
C4_SixAttemptsThenAbort ==
    AllTransient =>
        \/ pc = "Sending" /\ attempts <= RETRY_TOTAL /\ total = RETRY_TOTAL - attempts
        \/ RaisedAfter(RETRY_TOTAL + 1)

C4_Witness ==
    /\ RaisedAfter(6)
    /\ server = TransientServer
    /\ AllTransient
    /\ NetworkFailure \in results
    /\ Cardinality(results) > 2

\* A 429 carrying a Retry-After header.
RateLimitedWithHeader(r) == r.status = 429 /\ r.ra.kind # "none"

\* A 429 without a Retry-After header.
RateLimitedNoHeader(r) == r.status = 429 /\ r.ra.kind = "none"

\* The running page fetch has made attempts, and each was answered 429 with
\* a Retry-After header.
All429WithHeader == results # {} /\ \A r \in results : RateLimitedWithHeader(r)

\* ... each was answered 429 without the header.
All429NoHeader == results # {} /\ \A r \in results : RateLimitedNoHeader(r)

\* C5: a page fetch that is always answered 429 with Retry-After (a number
\* of seconds) makes exactly 2 GET attempts, the second after one sleep, and
\* then surfaces the error; the 429s do not go through the retries of the
\* retry layer.
C5_Original ==
    (All429WithHeader /\ \A r \in results : r.ra.kind = "int") =>
        /\ attempts <= 2
        /\ pc = "Terminal" => attempts = 2

\* C6 as claimed: a page fetch that is always answered 429 without
\* Retry-After makes one extra attempt, 2 in all, before the failure
\* is surfaced.
C6_Original ==
    All429NoHeader =>
        /\ attempts <= 2
        /\ pc = "Terminal" => attempts = 2

\* C6 as amended: a 429 without Retry-After gets no attempt from the 429
\* branch of polite_get, which needs the header; the retry layer retries it
\* as it does a transient status, up to 5 times with the waits of the
\* backoff, and the failure of the 6th attempt is raised and aborts the run.
C6_RetriedByRetryLayerOnly ==
    All429NoHeader =>
        /\ ~reissued
        /\ \/ pc = "Sending" /\ attempts <= RETRY_TOTAL
           \/ RaisedAfter(RETRY_TOTAL + 1)
        /\ waits = BackoffWaits(Min(attempts, RETRY_TOTAL))

C6_Witness ==
    /\ RaisedAfter(6)
    /\ All429NoHeader
    /\ waits = <<0, 2, 4, 8, 16>>

\* C7: a 400, 401, 403 or 404 is never retried. Once one is received no GET
\* attempt and no wait follows in the run; the fetch ends in HTTPError and
\* the run in Terminal; when it answers the first attempt the fetch has made
\* exactly one attempt and slept no wait.
C7_PermanentNeverRetried ==
    /\ []((\E r \in results : Permanent(r)) =>
            /\ pc \in {"GotResp", "Terminal"}
            /\ Permanent(resp)
            /\ pc = "Terminal" => terminal = "AbortedOnError" /\ reason = "HTTPError"
            /\ AllPermanent => attempts = 1 /\ waits = << >>)
    /\ [][(\E r \in results : Permanent(r)) =>
            /\ gets' = gets
            /\ waits' = waits
            /\ pc' = "Terminal"]_vars

C7_Witness ==
    /\ pc = "Terminal"
    /\ reason = "HTTPError"
    /\ attempts = 1
    /\ gets = 1
    /\ resp = Response(404, RetryAfterInt(3))

\* session.get has returned a 200 after k transient failures.
SucceededAfterTransients ==
    /\ pc = "GotResp"
    /\ resp.status = 200
    /\ \A r \in results \ {resp} : Transient(r)

\* C8 as claimed: after k transient failures and then a 200, the fetch has
\* made k + 1 attempts, the waits between them are strictly increasing, each
\* the double of the one before, and the outcome is Success.
C8_Original ==
    SucceededAfterTransients =>
        /\ attempts = failures + 1
        /\ Len(waits) = failures
        /\ StrictlyIncreasing(waits)
        /\ Doubling(waits)

\* C8 as amended: after k <= 5 transient failures without a Retry-After
\* header and then a 200, the fetch has made k + 1 attempts, the waits
\* between them are 0, 2, 4, 8, 16 seconds (none before the first retry,
\* doubling from the second on), which is strictly increasing, and the
\* outcome is Success.
C8_BackoffThenSuccess ==
    (SucceededAfterTransients /\ \A r \in results : r.ra.kind = "none") =>
        /\ failures <= RETRY_TOTAL
        /\ attempts = failures + 1
        /\ waits = BackoffWaits(failures)
        /\ StrictlyIncreasing(waits)
        /\ ~raises_for_status(resp)

\* The spec's case: 503 three times, then 200.
C8_Witness ==
    /\ SucceededAfterTransients
    /\ results = {Response(503, NoRetryAfter), OK}
    /\ attempts = 4
    /\ waits = <<0, 2, 4>>

\* The for loop is at an item whose absolute URL was recorded before.
AtRepeatedItem ==
    /\ pc = "Items"
    /\ idx <= Len(items)
    /\ \E i \in DOMAIN discovered : discovered[i][2] = urljoin(page, items[idx].href)

\* C9: no item URL is recorded as discovered twice in a run, whatever pages
\* and hrefs led to it; seen holds exactly the recorded URLs; and the turn of
\* the loop at an item whose URL was recorded before records nothing and
\* sleeps no random_delay.
C9_ItemRecordedOnce ==
    /\ [](/\ NoDuplicates(DiscoveredUrls)
          /\ seen = {DiscoveredUrls[i] : i \in DOMAIN discovered})
    /\ [][AtRepeatedItem =>
            /\ discovered' = discovered
            /\ seen' = seen
            /\ paced' = paced
            /\ lastDelay' = lastDelay]_vars

\* On a second page, an item whose URL the first page recorded through
\* another href has just been skipped.
C9_Witness ==
    /\ pc = "Items"
    /\ Len(fetched) = 2
    /\ page # fetched[1]
    /\ idx = 2
    /\ Len(discovered) = 1
    /\ items[1].href = AbsHref(discovered[1][2])
    /\ ~paced

\* C10: no page URL is fetched twice in a run; a next-page link to a page
\* fetched before, the current one included, brings no second fetch of it.
C10_Original == NoDuplicates(fetched)

\* The absolute URLs of the items of a listing fetched from base, in the
\* order of the listing.
UrlsOf(base, its) == [k \in DOMAIN its |-> urljoin(base, its[k].href)]

\* The URLs discovered after the first `from` ones, and the set of those.
Found(from) == SubSeq(DiscoveredUrls, from + 1, Len(discovered))

Before(upto) == {DiscoveredUrls[i] : i \in 1..upto}

FirstIndex(q, u) == CHOOSE k \in DOMAIN q : q[k] = u /\ \A j \in 1..(k - 1) : q[j] # u

\* found is urls without the URLs of earlier and without repetitions, in the
\* order of first occurrence in urls.
InListingOrder(found, urls, earlier) ==
    /\ NoDuplicates(found)
    /\ {found[i] : i \in DOMAIN found} = {urls[k] : k \in DOMAIN urls} \ earlier
    /\ \A i, j \in DOMAIN found :
        i < j => FirstIndex(urls, found[i]) < FirstIndex(urls, found[j])

\* C11: on a chain of pages linked by next-page links whose fetches all
\* succeed, the items are discovered in page order and, within a page, in
\* the order of its listing: what a page adds to discovered comes after
\* everything found on the pages before it and is its items in listing
\* order (an item URL found earlier is not added again); the run ends as
\* Completed on the page without a next-page link, having fetched each page
\* of the chain once, with one GET per page when every GET was answered 200.
C11_ChainDiscoveredInOrder ==
    /\ pc = "Items" =>
        /\ pageStart <= Len(discovered)
        /\ InListingOrder(Found(pageStart),
                          SubSeq(UrlsOf(page, items), 1, idx - 1), Before(pageStart))
    /\ terminal = "Completed" =>
        /\ pc = "Terminal"
        /\ page = NoPage
        /\ next_link = NoNextLink
        /\ fetched # << >>
        /\ InListingOrder(Found(pageStart),
                          UrlsOf(fetched[Len(fetched)], items), Before(pageStart))
        /\ allOK => gets = Len(fetched)

\* The spec's case: two pages, two items on the first and one on the second.
C11_Witness ==
    /\ terminal = "Completed"
    /\ allOK
    /\ Len(fetched) = 2
    /\ gets = 2
    /\ pageStart = 2
    /\ Len(discovered) = 3
    /\ Len(items) = 1

\* The run ended inside a call of polite_get: the call was made and did not
\* return a page to parse.
AbortedInFetch == pc = "Terminal" /\ user_agent # "None"

\* The pages fetched and processed before the one whose fetch failed.
PagesProcessed == IF attempts = 0 THEN Len(fetched) ELSE Len(fetched) - 1

\* C12: on every abort path (the robots denial of the current page, an HTTP
\* error, any other exception out of the fetch) the run is in Terminal with
\* the reason logged; the page before the failing one was processed to its
\* last item, so that discovered holds the items of the pages processed
\* before the failing page and nothing of it; and once in Terminal no GET,
\* no wait and no item record follows.
C12_AbortKeepsEarlierPages ==
    /\ [](AbortedInFetch =>
            /\ terminal = "AbortedOnError"
            /\ reason = (IF attempts = 0 THEN "PermissionError"
                         ELSE IF resp # NoResponse THEN "HTTPError"
                         ELSE "Exception")
            /\ idx = Len(items) + 1
            /\ pageStart <= Len(discovered)
            /\ IF PagesProcessed = 0
               THEN discovered = << >> /\ seen = {}
               ELSE InListingOrder(Found(pageStart),
                                   UrlsOf(fetched[PagesProcessed], items),
                                   Before(pageStart)))
    /\ [][pc = "Terminal" =>
            /\ gets' = gets
            /\ waits' = waits
            /\ paced' = paced /\ lastDelay' = lastDelay
            /\ discovered' = discovered /\ seen' = seen]_vars

\* The fetch of the second page ends in an HTTP error after the first page
\* gave two items.
C12_Witness ==
    /\ AbortedInFetch
    /\ reason = "HTTPError"
    /\ Len(fetched) = 2
    /\ Len(discovered) = 2

\* check_robots was called and robots.txt could not be fetched: the request
\* failed in the network, or the server answered it with a 5xx.
RobotsFetchFailed == pc # "Starting" /\ rp.kind \in {"none", "unread"}

\* C13: when the fetch of robots.txt fails, check_robots yields Unknown
\* (None) and the run is not blocked: it does not end as BlockedByRobots and
\* no page is denied by robots in it.
C13_Original ==
    RobotsFetchFailed =>
        /\ robots_ok = "None"
        /\ rp = NoPolicy
        /\ terminal # "BlockedByRobots"
        /\ reason # "PermissionError"

\* The hosts page GETs were issued to.
HostsFetched == {fetched[i].host : i \in DOMAIN fetched}

\* C14: robots.txt is requested exactly once for each distinct host a page
\* GET is issued to.
C14_Original == fetched # << >> => robotsGets = Cardinality(HostsFetched)

\* The running page fetch has made one attempt, answered r.
FirstAnswer(r) == results = {r} /\ attempts = 1

\* C15: on a 429 with a Retry-After header, the wait slept before the extra
\* attempt is the header's value when it is an integer number of seconds
\* and the fixed 60 seconds when it is an HTTP-date.
C15_Original ==
    \A r \in results :
        (FirstAnswer(r) /\ r.status = 429 /\ r.ra.kind \in {"int", "date"}) =>
            /\ Len(waits) = 1
            /\ waits[1] = IF r.ra.kind = "int" THEN r.ra.secs ELSE RETRY_AFTER_FALLBACK

\* C16: every random_delay sleeps a duration within [MIN_DELAY, MAX_DELAY],
\* never negative, whatever was slept before it: a delay slept since the
\* last GET attempt is within the bounds, and each step that sleeps one,
\* after whatever delay, sleeps one within the bounds.
C16_DelayWithinBounds ==
    /\ [](IF paced
          THEN lastDelay >= 0 /\ MIN_DELAY <= lastDelay /\ lastDelay <= MAX_DELAY
          ELSE lastDelay = 0)
    /\ [][paced' /\ pc = "Items" =>
            lastDelay' = lastDelay \/ (MIN_DELAY <= lastDelay' /\ lastDelay' <= MAX_DELAY)]_vars

\* The longest delay, slept after the second item found.
C16_Witness ==
    /\ paced
    /\ lastDelay = MAX_DELAY
    /\ pc = "Items"
    /\ Len(discovered) = 2

\* C17: on a site that answers every GET with 200, whatever its next-page
\* links, scrape_site eventually reaches Terminal.
C17_Original == <>(pc = "Terminal")

\* C18: for every integer Retry-After value received with a 429, zero and
\* negative ones included, the wait before the extra attempt is a sleep of a
\* non-negative duration that does not raise, and the extra attempt follows.
C18_Original ==
    \A r \in results :
        (FirstAnswer(r) /\ r.status = 429 /\ r.ra.kind \in {"int", "signed"}) =>
            /\ pc = "Sending"
            /\ Len(waits) = 1
            /\ waits[1] >= 0

\* C19: in a call of polite_get with a robots policy, the agent the policy
\* was asked about is the agent sent in the User-Agent header of the GET.
C19_Original ==
    (pc \in {"Sending", "GotResp"} /\ rp.kind # "none") =>
        robots_agent(user_agent) = headerUA

=========================================================================
